---- MODULE Spec2Model ----
(***************************************************************************)
(* Model of the VeriSource browser extension: the fetch wrapper of         *)
(* extension/inject.js (tee of the conversation stream, SSE line decoder,  *)
(* payload miner, dedup and postMessage delivery) and the content script   *)
(* that stores the last delivered citations and answers GET_CITATIONS.     *)
(*                                                                         *)
(* Text is modelled with TLA+ strings, one character per JavaScript code   *)
(* unit.  A byte string uses one character per byte; the two bytes of the  *)
(* two-byte UTF-8 sequence C3 A9 are written "^" and "~", the character    *)
(* they decode to is written "E" and U+FFFD is written "?".                *)
(***************************************************************************)
EXTENDS Integers, Sequences, FiniteSets, TLC

(***************************************************************************)
(* Constants of inject.js                                                  *)
(***************************************************************************)
CONVERSATION_PATH == "/backend-api/"
CONVERSATION_SUBPATH == "conversation"
CITATIONS_EVENT == "AICredibilityCitations"

(***************************************************************************)
(* String helpers (String.prototype methods used by the code)              *)
(***************************************************************************)
Ch(s, i) == IF i >= 1 /\ i <= Len(s) THEN SubSeq(s, i, i) ELSE ""

\* s.slice(n) for n >= 0
SliceFrom(s, n) == SubSeq(s, n + 1, Len(s))

\* s.slice(0, n)
SliceTo(s, n) == SubSeq(s, 1, n)

\* s.startsWith(p)
StartsWith(s, p) == Len(s) >= Len(p) /\ SubSeq(s, 1, Len(p)) = p

\* s.includes(p)
Includes(s, p) ==
    \E i \in 1..(Len(s) - Len(p) + 1) : SubSeq(s, i, i + Len(p) - 1) = p

\* s.indexOf(c) for a single character c, 0-based, -1 when absent
IndexOf(s, c) ==
    IF \E i \in 1..Len(s) : Ch(s, i) = c
    THEN (CHOOSE i \in 1..Len(s) :
             /\ Ch(s, i) = c
             /\ \A j \in 1..(i - 1) : Ch(s, j) # c) - 1
    ELSE -1

WhiteSpace == {" ", "\r", "\t", "\n"}

\* s.trim()
TrimTo(s, keep) ==
    IF keep = {} THEN ""
    ELSE SubSeq(s, CHOOSE i \in keep : \A j \in keep : i <= j,
                   CHOOSE i \in keep : \A j \in keep : i >= j)

Trim(s) == TrimTo(s, {i \in 1..Len(s) : Ch(s, i) \notin WhiteSpace})

\* f[lo] \o ... \o f[hi] for a function f of strings
RECURSIVE Concat(_, _, _)
Concat(f, lo, hi) ==
    IF lo > hi THEN ""
    ELSE IF lo = hi THEN f[lo]
    ELSE Concat(f, lo, (lo + hi) \div 2) \o Concat(f, (lo + hi) \div 2 + 1, hi)

(***************************************************************************)
(* TextDecoder.decode(value, {stream: true}): UTF-8, non-fatal.  The       *)
(* decoder keeps an unfinished multi-byte sequence across calls.           *)
(* pending is "" or the lead byte "^".                                     *)
(***************************************************************************)
LeadByte == "^"
ContByte == "~"
TwoByteChar == "E"
Replacement == "?"

\* the text the byte b adds, given whether a lead byte is waiting before it
DecodedByte(b, waiting) ==
    IF b = ContByte
    THEN (IF waiting THEN TwoByteChar ELSE Replacement)
    ELSE IF b = LeadByte
         THEN (IF waiting THEN Replacement ELSE "")
         ELSE (IF waiting THEN Replacement \o b ELSE b)

DecodedAt(pending, bytes, i) ==
    DecodedByte(Ch(bytes, i),
                IF i = 1 THEN pending = LeadByte ELSE Ch(bytes, i - 1) = LeadByte)

Decode(pending, bytes) ==
    [text |-> Concat([i \in 1..Len(bytes) |-> DecodedAt(pending, bytes, i)],
                     1, Len(bytes)),
     pending |-> IF bytes = "" THEN pending
                 ELSE IF Ch(bytes, Len(bytes)) = LeadByte THEN LeadByte ELSE ""]

(***************************************************************************)
(* JSON values, as JSON.parse builds them.  Subset: objects, arrays,       *)
(* strings without escapes, unsigned integers, true / false / null.        *)
(***************************************************************************)
JStr(s) == [t |-> "string", s |-> s, k |-> <<>>, a |-> <<>>]
JNum(s) == [t |-> "number", s |-> s, k |-> <<>>, a |-> <<>>]
JBool(s) == [t |-> "boolean", s |-> s, k |-> <<>>, a |-> <<>>]
JNull == [t |-> "null", s |-> "", k |-> <<>>, a |-> <<>>]
JArr(a) == [t |-> "array", s |-> "", k |-> <<>>, a |-> a]
JObj(k, a) == [t |-> "object", s |-> "", k |-> k, a |-> a]
Undefined == [t |-> "undefined", s |-> "", k |-> <<>>, a |-> <<>>]

Digits == {"0", "1", "2", "3", "4", "5", "6", "7", "8", "9"}
JsonWs == {" ", "\r", "\t", "\n"}
ParseFail == [ok |-> FALSE, v |-> Undefined, i |-> 0]

\* the first index at or after i that holds no white space
SkipWs(s, i) ==
    CHOOSE j \in i..(Len(s) + 1) :
        /\ Ch(s, j) \notin JsonWs
        /\ \A m \in i..(j - 1) : Ch(s, m) \in JsonWs

\* index of the closing quote of a string whose content starts at i, 0 if none
ScanString(s, i) ==
    IF \E j \in i..Len(s) : Ch(s, j) = "\""
    THEN CHOOSE j \in i..Len(s) :
             /\ Ch(s, j) = "\""
             /\ \A m \in i..(j - 1) : Ch(s, m) # "\""
    ELSE 0

\* the first index at or after i that holds no digit
ScanDigits(s, i) ==
    CHOOSE j \in i..(Len(s) + 1) :
        /\ Ch(s, j) \notin Digits
        /\ \A m \in i..(j - 1) : Ch(s, m) \in Digits

Parsed(v, i) == [ok |-> TRUE, v |-> v, i |-> i]

\* a string literal whose closing quote is at e (0: unterminated)
PStringTo(s, i, e) ==
    IF e = 0 THEN ParseFail ELSE Parsed(JStr(SubSeq(s, i + 1, e - 1)), e + 1)

PString(s, i) ==
    IF Ch(s, i) # "\"" THEN ParseFail ELSE PStringTo(s, i, ScanString(s, i + 1))

\* digits from i up to e - 1; a leading zero is not allowed
PNumberTo(s, i, e) ==
    IF Ch(s, i) = "0" /\ e > i + 1 THEN ParseFail
    ELSE Parsed(JNum(SubSeq(s, i, e - 1)), e)

Literal(s, i, word, val) ==
    IF i + Len(word) - 1 <= Len(s) /\ SubSeq(s, i, i + Len(word) - 1) = word
    THEN Parsed(val, i + Len(word))
    ELSE ParseFail

\* obj[key] = value: a repeated key keeps its place and takes the new value
PutKey(ks, vs, key, val) ==
    IF \E n \in 1..Len(ks) : ks[n] = key
    THEN [ks |-> ks,
          vs |-> [n \in 1..Len(vs) |-> IF ks[n] = key THEN val ELSE vs[n]]]
    ELSE [ks |-> Append(ks, key), vs |-> Append(vs, val)]

\* the white space after a parsed value
TrailWs(s, r) == IF r.ok THEN [r EXCEPT !.i = SkipWs(s, r.i)] ELSE ParseFail

RECURSIVE PValue(_, _)
RECURSIVE PMembers(_, _, _, _)
RECURSIVE PElements(_, _, _)

\* after a member: "," and the next member, or "}"
PNextMember(s, i, put) ==
    IF Ch(s, i) = "," THEN PMembers(s, SkipWs(s, i + 1), put.ks, put.vs)
    ELSE IF Ch(s, i) = "}" THEN Parsed(JObj(put.ks, put.vs), i + 1)
    ELSE ParseFail

PMemberValue(s, key, val, ks, vs) ==
    IF ~val.ok THEN ParseFail
    ELSE PNextMember(s, val.i, PutKey(ks, vs, key, val.v))

PMemberColon(s, key, c, ks, vs) ==
    IF Ch(s, c) # ":" THEN ParseFail
    ELSE PMemberValue(s, key, PValue(s, c + 1), ks, vs)

PMemberKey(s, key, ks, vs) ==
    IF ~key.ok THEN ParseFail
    ELSE PMemberColon(s, key.v.s, SkipWs(s, key.i), ks, vs)

\* a member starting at i: string ws ":" value
PMembers(s, i, ks, vs) == PMemberKey(s, PString(s, i), ks, vs)

\* after an element: "," and the next element, or "]"
PNextElement(s, val, acc) ==
    IF ~val.ok THEN ParseFail
    ELSE IF Ch(s, val.i) = "," THEN PElements(s, val.i + 1, Append(acc, val.v))
    ELSE IF Ch(s, val.i) = "]" THEN Parsed(JArr(Append(acc, val.v)), val.i + 1)
    ELSE ParseFail

PElements(s, i, acc) == PNextElement(s, PValue(s, i), acc)

\* after "{": "}" or the members
PObject(s, i) ==
    IF Ch(s, i) = "}" THEN Parsed(JObj(<<>>, <<>>), i + 1)
    ELSE PMembers(s, i, <<>>, <<>>)

\* after "[": "]" or the elements
PArray(s, i) ==
    IF Ch(s, SkipWs(s, i)) = "]" THEN Parsed(JArr(<<>>), SkipWs(s, i) + 1)
    ELSE PElements(s, i, <<>>)

\* the value that starts at i with the character c
PValueAt(s, i, c) ==
    IF c = "{" THEN PObject(s, SkipWs(s, i + 1))
    ELSE IF c = "[" THEN PArray(s, i + 1)
    ELSE IF c = "\"" THEN PString(s, i)
    ELSE IF c \in Digits THEN PNumberTo(s, i, ScanDigits(s, i))
    ELSE IF c = "t" THEN Literal(s, i, "true", JBool("true"))
    ELSE IF c = "f" THEN Literal(s, i, "false", JBool("false"))
    ELSE IF c = "n" THEN Literal(s, i, "null", JNull)
    ELSE ParseFail

PValueFrom(s, i) == TrailWs(s, PValueAt(s, i, Ch(s, i)))

\* one value with the white space around it; i is the index after both
PValue(s, i0) == PValueFrom(s, SkipWs(s, i0))

WholeText(text, r) == IF r.ok /\ r.i = Len(text) + 1 THEN r ELSE ParseFail

\* JSON.parse(text): ok = FALSE stands for the SyntaxError it throws
JSONParse(text) == WholeText(text, PValue(text, 1))

(***************************************************************************)
(* JavaScript property access and truthiness on parsed values              *)
(***************************************************************************)
\* v[key] for the keys the code reads; undefined when v has no such property
Field(v, key) ==
    IF v.t = "object" /\ \E n \in 1..Len(v.k) : v.k[n] = key
    THEN v.a[CHOOSE n \in 1..Len(v.k) : v.k[n] = key]
    ELSE Undefined

Truthy(v) ==
    CASE v.t \in {"undefined", "null"} -> FALSE
      [] v.t = "boolean" -> v.s = "true"
      [] v.t = "number" -> v.s # "0"
      [] v.t = "string" -> v.s # ""
      [] OTHER -> TRUE

\* v || ''
OrEmpty(v) == IF Truthy(v) THEN v ELSE JStr("")

\* { url: s.url, title: s.title || '', attribution: s.attribution || '' }
Citation(s) ==
    [url |-> Field(s, "url").s,
     title |-> OrEmpty(Field(s, "title")),
     attribution |-> OrEmpty(Field(s, "attribution"))]

\* s && typeof s.url === 'string'
HasStringUrl(s) == Truthy(s) /\ Field(s, "url").t = "string"

RECURSIVE PushSources(_, _, _)
\* for (const s of list) if (...) found.push({...})
PushSources(list, n, found) ==
    IF n > Len(list) THEN found
    ELSE PushSources(list, n + 1,
                     IF HasStringUrl(list[n])
                     THEN Append(found, Citation(list[n]))
                     ELSE found)

(***************************************************************************)
(* extractSourcesFromPayload(obj, found): the value of found afterwards    *)
(***************************************************************************)
RECURSIVE extractSourcesFromPayload(_, _)
RECURSIVE ExtractEach(_, _, _)

ExtractEach(vals, n, found) ==
    IF n > Len(vals) THEN found
    ELSE ExtractEach(vals, n + 1, extractSourcesFromPayload(vals[n], found))

\* if (Array.isArray(obj.items)) for (const item of obj.items) ...
PushItems(items, found) ==
    IF items.t = "array" THEN PushSources(items.a, 1, found) ELSE found

extractSourcesFromPayload(obj, found) ==
    IF obj.t \notin {"object", "array"} THEN found
    ELSE IF obj.t = "array" THEN ExtractEach(obj.a, 1, found)
    ELSE IF Field(obj, "type") = JStr("sources_footnote")
            /\ Field(obj, "sources").t = "array"
         THEN PushSources(Field(obj, "sources").a, 1, found)
         ELSE ExtractEach(obj.a, 1, PushItems(Field(obj, "items"), found))

(***************************************************************************)
(* processDataLine(line, collected): the value of collected afterwards     *)
(***************************************************************************)
DONE_SENTINEL == "[DONE]"

\* mutant: a payload that does not parse discards what was collected
MineParsedFailureDrops(data, collected) ==
    IF data.ok THEN extractSourcesFromPayload(data.v, collected) ELSE <<>>

MineParsed(data, collected) ==
    IF data.ok THEN extractSourcesFromPayload(data.v, collected) ELSE collected

ProcessTrimmed(trimmed, collected) ==
    IF trimmed = "" \/ trimmed = DONE_SENTINEL THEN collected
    ELSE MineParsed(JSONParse(trimmed), collected)

processDataLine(line, collected) == ProcessTrimmed(Trim(line), collected)

(***************************************************************************)
(* processBuffer(): st = [buffer, collected, lines]; lines records the     *)
(* payloads handed to processDataLine                                      *)
(***************************************************************************)
DATA_PREFIX == "data:"

\* the body of the while loop for one line: st with the line consumed
ProcessLine(st, line, rest) ==
    IF StartsWith(line, DATA_PREFIX)
    THEN [buffer |-> rest,
          collected |-> processDataLine(Trim(SliceFrom(line, Len(DATA_PREFIX))),
                                        st.collected),
          lines |-> Append(st.lines, Trim(SliceFrom(line, Len(DATA_PREFIX))))]
    ELSE [st EXCEPT !.buffer = rest]

RECURSIVE processBuffer(_)
ProcessFrom(st, idx) ==
    IF idx = -1 THEN st
    ELSE processBuffer(ProcessLine(st, SliceTo(st.buffer, idx),
                                   SliceFrom(st.buffer, idx + 1)))

\* mutant: 'if' in place of 'while': one line is taken per call
processBufferOneLine(st) ==
    IF IndexOf(st.buffer, "\n") = -1 THEN st
    ELSE ProcessLine(st, SliceTo(st.buffer, IndexOf(st.buffer, "\n")),
                     SliceFrom(st.buffer, IndexOf(st.buffer, "\n") + 1))

processBuffer(st) == ProcessFrom(st, IndexOf(st.buffer, "\n"))

(***************************************************************************)
(* collected.filter(...) with the seen set: first occurrence of each url   *)
(***************************************************************************)
RECURSIVE UniqueFrom(_, _, _, _)
UniqueFrom(collected, n, seen, out) ==
    IF n > Len(collected) THEN out
    ELSE IF collected[n].url \in seen
         THEN UniqueFrom(collected, n + 1, seen, out)
         ELSE UniqueFrom(collected, n + 1, seen \cup {collected[n].url},
                         Append(out, collected[n]))

\* mutant: seen.add(key) is missing, so nothing is filtered out
UniqueNothingSeen(collected) == collected

Unique(collected) == UniqueFrom(collected, 1, {}, <<>>)

(***************************************************************************)
(* Requests: the arguments of window.fetch(input, init)                    *)
(*   input.kind   "string" (a bare URL) or "Request" (a request object)    *)
(*   input.url    the URL string, or the Request's url                     *)
(*   input.method the Request's method ("" for a bare URL)                 *)
(*   init.method  the method option, "" when init or init.method is absent *)
(***************************************************************************)
LowerLetters == "abcdefghijklmnopqrstuvwxyz"
UpperLetters == "ABCDEFGHIJKLMNOPQRSTUVWXYZ"

UpperChar(c) ==
    IF IndexOf(LowerLetters, c) = -1 THEN c
    ELSE Ch(UpperLetters, IndexOf(LowerLetters, c) + 1)

ToUpperCase(s) == Concat([i \in 1..Len(s) |-> UpperChar(Ch(s, i))], 1, Len(s))

getRequestUrl(input, options) ==
    IF input.kind = "string" THEN input.url
    ELSE IF input.kind = "Request" THEN input.url
    ELSE ""

getRequestMethod(input, options) ==
    IF input.kind = "Request"
    THEN (IF input.method # "" THEN input.method ELSE "GET")
    ELSE IF options.method # "" THEN ToUpperCase(options.method) ELSE "GET"

\* the isConversation test of window.fetch
IsConversationUrl(url) ==
    /\ url # ""
    /\ Includes(url, CONVERSATION_PATH)
    /\ Includes(url, CONVERSATION_SUBPATH)

isConversation(input, init) ==
    /\ IsConversationUrl(getRequestUrl(input, init))
    /\ getRequestMethod(input, init) = "POST"

(***************************************************************************)
(* Responses.  headers is a set of <<name, value>> pairs; body names the   *)
(* stream the response object carries: "none" (null body), "source" (the   *)
(* body of the original response) or "stream1" (the first tee branch).     *)
(***************************************************************************)
NoOutcome == [kind |-> "none"]

\* response.headers.get(name) || ''
HeaderOrEmpty(headers, name) ==
    IF \E h \in headers : h[1] = name
    THEN (CHOOSE h \in headers : h[1] = name)[2]
    ELSE ""

\* response.ok
IsOk(response) == response.status >= 200 /\ response.status <= 299

AcceptedType(contentType) ==
    Includes(contentType, "text/event-stream") \/ Includes(contentType, "text/plain")

\* mutant: the test of response.ok is missing
ShouldTeeAnyStatus(response) ==
    /\ response.body # "none"
    /\ AcceptedType(HeaderOrEmpty(response.headers, "content-type"))

\* the test that decides whether the .then handler tees the body
ShouldTee(response) ==
    /\ IsOk(response)
    /\ response.body # "none"
    /\ AcceptedType(HeaderOrEmpty(response.headers, "content-type"))

\* mutant: new Response(stream1), the init object forgotten
WrappedResponseBare(response) ==
    [kind |-> "response",
     obj |-> "wrapped",
     status |-> 200,
     statusText |-> "",
     headers |-> {},
     body |-> "stream1"]

\* new Response(stream1, { status, statusText, headers })
WrappedResponse(response) ==
    [kind |-> "response",
     obj |-> "wrapped",
     status |-> response.status,
     statusText |-> response.statusText,
     headers |-> response.headers,
     body |-> "stream1"]

\* what the promise returned by window.fetch settles to
FetchResult(isConv, outcome) ==
    IF outcome.kind = "rejected" THEN outcome
    ELSE IF isConv /\ ShouldTee(outcome) THEN WrappedResponse(outcome)
    ELSE outcome

(***************************************************************************)
(* detectServiceFromUrl(url), in the popup and in the content script.      *)
(* new URL(url) is modelled for URLs of the form                           *)
(*   scheme ":" ["//" [userinfo "@"] host [":" port]] path ["?" query]     *)
(*   ["#" fragment]                                                        *)
(* with a scheme of letters and a host that is a domain name.              *)
(***************************************************************************)
\* the value of a singleton: used to bind a value that is computed once
The(S) == CHOOSE x \in S : TRUE

LowerChar(c) ==
    The({IF IndexOf(UpperLetters, x) = -1 THEN x
         ELSE Ch(LowerLetters, IndexOf(UpperLetters, x) + 1) : x \in {c}})

ToLowerCase(s) ==
    The({Concat([i \in 1..Len(t) |-> LowerChar(Ch(t, i))], 1, Len(t)) : t \in {s}})

\* the number of slashes at the start of rest
LeadingSlashes(rest) ==
    The({CHOOSE n \in 0..Len(r) :
             /\ \A i \in 1..n : Ch(r, i) \in {"/", "\\"}
             /\ Ch(r, n + 1) \notin {"/", "\\"} : r \in {rest}})

\* the authority: what comes before the first character of stops
AuthorityOf(after, stops) ==
    The({SliceTo(a, (CHOOSE i \in 1..(Len(a) + 1) :
                        /\ i = Len(a) + 1 \/ Ch(a, i) \in stops
                        /\ \A j \in 1..(i - 1) : Ch(a, j) \notin stops) - 1) :
         a \in {after}})

StripPort(hostPort) ==
    The({IF IndexOf(hp, ":") = -1 THEN hp ELSE SliceTo(hp, IndexOf(hp, ":")) :
         hp \in {hostPort}})

\* the host of an authority: after the last "@", before the port
HostOfAuthority(auth) ==
    The({StripPort(SliceFrom(a, CHOOSE i \in 0..Len(a) :
                                   /\ i = 0 \/ Ch(a, i) = "@"
                                   /\ \A j \in (i + 1)..Len(a) : Ch(a, j) # "@")) :
         a \in {auth}})

\* a URL of a scheme that always has a host: the host is lowercased, and an
\* empty host or a space in it makes the constructor throw
HostResult(host) ==
    The({IF h = "" \/ \E i \in 1..Len(h) : Ch(h, i) \in WhiteSpace
         THEN [ok |-> FALSE, hostname |-> ""]
         ELSE [ok |-> TRUE, hostname |-> ToLowerCase(h)] : h \in {host}})

\* a scheme of http, https, ws, wss, ftp takes any number of slashes before
\* the authority; any other scheme has an authority only after "//"
ParseFrom(scheme, rest) ==
    IF scheme = "" \/ \E c \in {Ch(scheme, i) : i \in 1..Len(scheme)} :
                         IndexOf(LowerLetters, c) = -1
    THEN [ok |-> FALSE, hostname |-> ""]
    ELSE IF scheme \in {"http", "https", "ws", "wss", "ftp"}
         THEN HostResult(HostOfAuthority(
                  AuthorityOf(SliceFrom(rest, LeadingSlashes(rest)),
                              {"/", "\\", "?", "#"})))
         ELSE IF StartsWith(rest, "//")
              THEN [ok |-> TRUE,
                    hostname |-> HostOfAuthority(
                                     AuthorityOf(SliceFrom(rest, 2), {"/", "?", "#"}))]
              ELSE [ok |-> TRUE, hostname |-> ""]

\* new URL(url): ok is FALSE when the constructor throws; hostname is
\* u.hostname
ParseUrl(url) ==
    The({ParseFrom(scheme, rest) :
         scheme \in {ToLowerCase(SliceTo(url, IndexOf(url, ":")))},
         rest \in {SliceFrom(url, IndexOf(url, ":") + 1)}})

\* the service key, "null" for null
NullService == "null"

\* content_script.js
detectServiceFromUrl(url) ==
    IF url = "" THEN NullService
    ELSE The({IF ~u.ok THEN NullService
              ELSE The({IF host = "chatgpt.com" \/ host = "chat.openai.com"
                        THEN "chatgpt"
                        ELSE IF host = "claude.ai" THEN "claude"
                        ELSE IF host = "gemini.google.com" THEN "gemini"
                        ELSE IF host = "perplexity.ai" THEN "perplexity"
                        ELSE NullService : host \in {ToLowerCase(u.hostname)}}) :
              u \in {ParseUrl(url)}})

\* mutant: the popup's copy drifts to a substring test of the host
popupDetectServiceBySubstring(url) ==
    IF url = "" THEN NullService
    ELSE The({IF ~u.ok THEN NullService
              ELSE The({IF Includes(host, "chatgpt.com") \/ host = "chat.openai.com"
                        THEN "chatgpt"
                        ELSE IF host = "claude.ai" THEN "claude"
                        ELSE IF host = "gemini.google.com" THEN "gemini"
                        ELSE IF host = "perplexity.ai" THEN "perplexity"
                        ELSE NullService : host \in {ToLowerCase(u.hostname)}}) :
              u \in {ParseUrl(url)}})

\* popup.js
popupDetectServiceFromUrl(url) ==
    IF url = "" THEN NullService
    ELSE The({IF ~u.ok THEN NullService
              ELSE The({IF host = "chatgpt.com" \/ host = "chat.openai.com"
                        THEN "chatgpt"
                        ELSE IF host = "claude.ai" THEN "claude"
                        ELSE IF host = "gemini.google.com" THEN "gemini"
                        ELSE IF host = "perplexity.ai" THEN "perplexity"
                        ELSE NullService : host \in {ToLowerCase(u.hostname)}}) :
              u \in {ParseUrl(url)}})

(***************************************************************************)
(* State.  Calls are the page's calls of window.fetch that may overlap.    *)
(***************************************************************************)
Calls == {"c1", "c2"}

VARIABLES
    phase,          \* per call: "idle", "pending" (originalFetch in flight), "settled"
    request,        \* per call: the arguments [input, init] of window.fetch
    upstream,       \* per call: what originalFetch settled to
    result,         \* per call: what the promise returned by window.fetch settled to
    body,           \* per call: the bytes the server sends as the response body
    pos,            \* per call: number of body bytes the source has produced
    sent,           \* per call: the chunks the source has produced, in order
    srcState,       \* per call: "open", "closed" or "errored" (the source stream)
    callerQueue,    \* per call: chunks queued in the stream the caller holds
    shadowQueue,    \* per call: chunks queued in the second tee branch
    callerGot,      \* per call: the chunks the caller has read
    callerEnd,      \* per call: "reading", "done" or "error" (the caller's reads)
    shadow,         \* per call: "none", "reading", "done", "rejected" (consumeStream)
    buffer,         \* per call: consumeStream's line buffer
    decoder,        \* per call: the TextDecoder's unfinished byte sequence
    collected,      \* per call: consumeStream's accumulator
    dataLines,      \* per call: the payloads handed to processDataLine
    mailbox,        \* window messages posted and not yet dispatched
    lastCitations,  \* the content script's stored list
    reply,          \* the last response to GET_CITATIONS
    lastCompleted,  \* the deduplicated list of the stream that ended last
    tab,            \* the active tab the popup was opened on: [id, url]
    popup           \* the popup: its position in init() and what it shows

vars == <<phase, request, upstream, result, body, pos, sent, srcState,
          callerQueue, shadowQueue, callerGot, callerEnd, shadow, buffer,
          decoder, collected, dataLines, mailbox, lastCitations, reply,
          lastCompleted, tab, popup>>

fetchVars == <<phase, request, upstream, result, body>>
sourceVars == <<pos, sent, srcState>>
callerVars == <<callerGot, callerEnd>>
streamVars == <<buffer, decoder, collected, dataLines>>
sinkVars == <<mailbox, lastCitations, reply, lastCompleted>>
popupVars == <<tab, popup>>

NoRequest == [input |-> [kind |-> "none", url |-> "", method |-> ""],
              init |-> [method |-> ""]]
NoReply == [answered |-> FALSE, sources |-> <<>>]
NoneCompleted == [any |-> FALSE, unique |-> <<>>]
NoTab == [id |-> 0, url |-> ""]
NoServiceReply == [answered |-> FALSE, service |-> "", pageUrl |-> ""]
\* the popup is not open: nothing of it exists
PopupClosed ==
    [at |-> "closed", status |-> "", statusText |-> "", service |-> "", url |-> "",
     hint |-> FALSE, citations |-> "asLoaded", list |-> <<>>,
     response |-> NoServiceReply, citeRes |-> NoReply]

Init ==
    /\ phase = [c \in Calls |-> "idle"]
    /\ request = [c \in Calls |-> NoRequest]
    /\ upstream = [c \in Calls |-> NoOutcome]
    /\ result = [c \in Calls |-> NoOutcome]
    /\ body = [c \in Calls |-> ""]
    /\ pos = [c \in Calls |-> 0]
    /\ sent = [c \in Calls |-> <<>>]
    /\ srcState = [c \in Calls |-> "open"]
    /\ callerQueue = [c \in Calls |-> <<>>]
    /\ shadowQueue = [c \in Calls |-> <<>>]
    /\ callerGot = [c \in Calls |-> <<>>]
    /\ callerEnd = [c \in Calls |-> "reading"]
    /\ shadow = [c \in Calls |-> "none"]
    /\ buffer = [c \in Calls |-> ""]
    /\ decoder = [c \in Calls |-> ""]
    /\ collected = [c \in Calls |-> <<>>]
    /\ dataLines = [c \in Calls |-> <<>>]
    /\ mailbox = <<>>
    /\ lastCitations = <<>>
    /\ reply = NoReply
    /\ lastCompleted = NoneCompleted
    /\ tab = NoTab
    /\ popup = PopupClosed

(***************************************************************************)
(* window.fetch(input, init): the synchronous part, up to the call of      *)
(* originalFetch                                                           *)
(***************************************************************************)
Fetch(c, input, init) ==
    /\ phase[c] = "idle"
    /\ phase' = [phase EXCEPT ![c] = "pending"]
    /\ request' = [request EXCEPT ![c] = [input |-> input, init |-> init]]
    /\ UNCHANGED <<upstream, result, body, sourceVars, callerQueue, shadowQueue,
                   callerVars, shadow, streamVars, sinkVars, popupVars>>

(***************************************************************************)
(* originalFetch settles with outcome (a rejection or a response whose     *)
(* body will be the bytes b) and, for a conversation request, the .then    *)
(* handler runs: tee, consumeStream(stream2, decoder), new Response.       *)
(***************************************************************************)
\* the response carries the first tee branch: consumeStream was started
IsTeed(res) == res.kind = "response" /\ res.body = "stream1"

SettleWith(c, outcome, b, res) ==
    /\ phase' = [phase EXCEPT ![c] = "settled"]
    /\ upstream' = [upstream EXCEPT ![c] = outcome]
    /\ result' = [result EXCEPT ![c] = res]
    /\ body' = [body EXCEPT ![c] =
                   IF outcome.kind = "response" /\ outcome.body # "none"
                   THEN b ELSE ""]
    /\ shadow' = [shadow EXCEPT ![c] = IF IsTeed(res) THEN "reading" ELSE "none"]
    /\ UNCHANGED <<request, sourceVars, callerQueue, shadowQueue, callerVars,
                   streamVars, sinkVars, popupVars>>

Settle(c, outcome, b) ==
    /\ phase[c] = "pending"
    /\ SettleWith(c, outcome, b,
                  FetchResult(isConversation(request[c].input, request[c].init),
                              outcome))

HasBody(c) == upstream[c].kind = "response" /\ upstream[c].body # "none"

(***************************************************************************)
(* The source stream produces the next n bytes as one chunk.  A teed body  *)
(* forwards the chunk to both branches; an untouched body is the stream    *)
(* the caller holds.                                                       *)
(***************************************************************************)
TeeEnqueue(c, chunk) ==
    /\ callerQueue' = [callerQueue EXCEPT ![c] = Append(@, chunk)]
    /\ shadowQueue' = [shadowQueue EXCEPT ![c] =
                          IF shadow[c] = "none" THEN @ ELSE Append(@, chunk)]

Arrive(c, n) ==
    /\ phase[c] = "settled"
    /\ HasBody(c)
    /\ srcState[c] = "open"
    /\ n >= 1
    /\ pos[c] + n <= Len(body[c])
    /\ pos' = [pos EXCEPT ![c] = @ + n]
    /\ sent' = [sent EXCEPT ![c] = Append(@, SubSeq(body[c], pos[c] + 1, pos[c] + n))]
    /\ TeeEnqueue(c, SubSeq(body[c], pos[c] + 1, pos[c] + n))
    /\ UNCHANGED <<fetchVars, srcState, callerVars, shadow, streamVars, sinkVars,
                   popupVars>>

\* the source stream closes after the last byte
SourceClose(c) ==
    /\ phase[c] = "settled"
    /\ HasBody(c)
    /\ srcState[c] = "open"
    /\ pos[c] = Len(body[c])
    /\ srcState' = [srcState EXCEPT ![c] = "closed"]
    /\ UNCHANGED <<fetchVars, pos, sent, callerQueue, shadowQueue, callerVars,
                   shadow, streamVars, sinkVars, popupVars>>

\* the source stream errors (connection lost): the queued chunks of the
\* stream and of both tee branches are dropped
SourceError(c) ==
    /\ phase[c] = "settled"
    /\ HasBody(c)
    /\ srcState[c] = "open"
    /\ srcState' = [srcState EXCEPT ![c] = "errored"]
    /\ callerQueue' = [callerQueue EXCEPT ![c] = <<>>]
    /\ shadowQueue' = [shadowQueue EXCEPT ![c] = <<>>]
    /\ UNCHANGED <<fetchVars, pos, sent, callerVars, shadow, streamVars, sinkVars,
                   popupVars>>

(***************************************************************************)
(* The page reads the next chunk of the response it was given              *)
(***************************************************************************)
\* mutant: the first branch is served only once the second branch is drained
CallerCanReadLockstep(c) ==
    /\ phase[c] = "settled"
    /\ result[c].kind = "response"
    /\ result[c].body # "none"
    /\ callerEnd[c] = "reading"
    /\ (callerQueue[c] # <<>> \/ srcState[c] # "open")
    /\ shadowQueue[c] = <<>>

CallerCanRead(c) ==
    /\ phase[c] = "settled"
    /\ result[c].kind = "response"
    /\ result[c].body # "none"
    /\ callerEnd[c] = "reading"
    /\ (callerQueue[c] # <<>> \/ srcState[c] # "open")

CallerRead(c) ==
    /\ CallerCanRead(c)
    /\ IF callerQueue[c] # <<>>
       THEN /\ callerGot' = [callerGot EXCEPT ![c] = Append(@, Head(callerQueue[c]))]
            /\ callerQueue' = [callerQueue EXCEPT ![c] = Tail(@)]
            /\ UNCHANGED callerEnd
       ELSE /\ callerEnd' = [callerEnd EXCEPT ![c] =
                                IF srcState[c] = "closed" THEN "done" ELSE "error"]
            /\ UNCHANGED <<callerGot, callerQueue>>
    /\ UNCHANGED <<fetchVars, sourceVars, shadowQueue, shadow, streamVars, sinkVars,
                   popupVars>>

(***************************************************************************)
(* consumeStream: the callback of reader.read()                            *)
(***************************************************************************)
\* value is a chunk: buffer += decoder.decode(value, { stream: true });
\* processBuffer()
\* mutant: buffer = decoder.decode(...) in place of buffer += ...
DecodedReplace(st, dec) ==
    [st |-> processBuffer([st EXCEPT !.buffer = dec.text]),
     pending |-> dec.pending]

Decoded(st, dec) ==
    [st |-> processBuffer([st EXCEPT !.buffer = @ \o dec.text]),
     pending |-> dec.pending]

OnChunk(st, pending, value) == Decoded(st, Decode(pending, value))

\* done: processBuffer() after the read and once more in the done branch
OnDone(st) == processBuffer(processBuffer(st))

\* the window.postMessage call, made only for a non-empty list
PostCitations(unique) ==
    IF Len(unique) > 0
    THEN <<[source |-> "window",
            data |-> [type |-> CITATIONS_EVENT, isArray |-> TRUE, sources |-> unique]]>>
    ELSE <<>>

StreamState(c) ==
    [buffer |-> buffer[c], collected |-> collected[c], lines |-> dataLines[c]]

ShadowCanRead(c) ==
    /\ shadow[c] = "reading"
    /\ (shadowQueue[c] # <<>> \/ srcState[c] # "open")

\* mutant: one line buffer for all calls (a module-level 'let buffer')
SetStreamShared(c, st) ==
    /\ buffer' = [d \in Calls |-> st.buffer]
    /\ collected' = [collected EXCEPT ![c] = st.collected]
    /\ dataLines' = [dataLines EXCEPT ![c] = st.lines]

SetStream(c, st) ==
    /\ buffer' = [buffer EXCEPT ![c] = st.buffer]
    /\ collected' = [collected EXCEPT ![c] = st.collected]
    /\ dataLines' = [dataLines EXCEPT ![c] = st.lines]

\* mutant: the citations collected so far are posted after every chunk
ShadowChunkEager(c, r) ==
    /\ shadowQueue' = [shadowQueue EXCEPT ![c] = Tail(@)]
    /\ SetStream(c, r.st)
    /\ decoder' = [decoder EXCEPT ![c] = r.pending]
    /\ mailbox' = mailbox \o PostCitations(Unique(r.st.collected))
    /\ UNCHANGED <<shadow, lastCompleted>>

\* { value, done: false }
ShadowChunk(c, r) ==
    /\ shadowQueue' = [shadowQueue EXCEPT ![c] = Tail(@)]
    /\ SetStream(c, r.st)
    /\ decoder' = [decoder EXCEPT ![c] = r.pending]
    /\ UNCHANGED <<shadow, mailbox, lastCompleted>>

\* mutant: the done branch posts and then reads again (return read())
FinishKeepsReading(c, unique) ==
    /\ shadow' = shadow
    /\ mailbox' = mailbox \o PostCitations(unique)
    /\ lastCompleted' = [any |-> TRUE, unique |-> unique]
    /\ UNCHANGED <<shadowQueue, decoder>>

Finish(c, unique) ==
    /\ shadow' = [shadow EXCEPT ![c] = "done"]
    /\ mailbox' = mailbox \o PostCitations(unique)
    /\ lastCompleted' = [any |-> TRUE, unique |-> unique]
    /\ UNCHANGED <<shadowQueue, decoder>>

\* { value: undefined, done: true }
ShadowDone(c, st) ==
    /\ SetStream(c, st)
    /\ Finish(c, Unique(st.collected))

\* reader.read() rejects; nothing catches the promise consumeStream returns
ShadowReject(c) ==
    /\ shadow' = [shadow EXCEPT ![c] = "rejected"]
    /\ UNCHANGED <<shadowQueue, streamVars, mailbox, lastCompleted>>

ShadowRead(c) ==
    /\ ShadowCanRead(c)
    /\ IF shadowQueue[c] # <<>>
       THEN ShadowChunk(c, OnChunk(StreamState(c), decoder[c], Head(shadowQueue[c])))
       ELSE IF srcState[c] = "closed"
            THEN ShadowDone(c, OnDone(StreamState(c)))
            ELSE ShadowReject(c)
    /\ UNCHANGED <<fetchVars, sourceVars, callerQueue, callerVars, lastCitations, reply,
                   popupVars>>

(***************************************************************************)
(* Content script                                                          *)
(***************************************************************************)
\* mutant: the listener does not test event.source
OnWindowMessageAnySource(event, last) ==
    IF event.data.type = "" THEN last
    ELSE IF event.data.type = CITATIONS_EVENT /\ event.data.isArray
         THEN event.data.sources
         ELSE last

\* the window 'message' listener: the value of lastCitations afterwards
OnWindowMessage(event, last) ==
    IF event.source # "window" \/ event.data.type = "" THEN last
    ELSE IF event.data.type = CITATIONS_EVENT /\ event.data.isArray
         THEN event.data.sources
         ELSE last

DeliverMessage ==
    /\ mailbox # <<>>
    /\ lastCitations' = OnWindowMessage(Head(mailbox), lastCitations)
    /\ mailbox' = Tail(mailbox)
    /\ UNCHANGED <<fetchVars, sourceVars, callerQueue, shadowQueue, callerVars,
                   shadow, streamVars, reply, lastCompleted, popupVars>>

\* the chrome.runtime.onMessage listener, message.type = 'GET_CITATIONS'
CitationsResponse == [answered |-> TRUE, sources |-> lastCitations]

GetCitations ==
    /\ reply # CitationsResponse
    /\ reply' = CitationsResponse
    /\ UNCHANGED <<fetchVars, sourceVars, callerQueue, shadowQueue, callerVars,
                   shadow, streamVars, mailbox, lastCitations, lastCompleted,
                   popupVars>>

\* the chrome.runtime.onMessage listener, message.type = 'GET_SERVICE', on a
\* page whose location.href is pageUrl
ServiceResponse(pageUrl) ==
    [answered |-> TRUE,
     service |-> IF detectServiceFromUrl(pageUrl) = NullService THEN "unknown"
                 ELSE detectServiceFromUrl(pageUrl),
     pageUrl |-> pageUrl]

\* a script of the page or of a frame calls postMessage on the page's window
PostWindowMessage(event) ==
    /\ mailbox = <<>>
    /\ mailbox' = <<event>>
    /\ UNCHANGED <<fetchVars, sourceVars, callerQueue, shadowQueue, callerVars,
                   shadow, streamVars, lastCitations, reply, lastCompleted, popupVars>>

(***************************************************************************)
(* Popup.  popup.at is the position in init(): "querying" waits for the    *)
(* callback of chrome.tabs.query, "service" for that of GET_SERVICE,       *)
(* "citations" and "fallbackCitations" for that of GET_CITATIONS sent by   *)
(* init and by renderFallback.  The other fields are what the popup        *)
(* shows: status is the class set by setStatus, service the text set by    *)
(* setService, url the title set by setUrl, hint the visibility of         *)
(* #refresh-hint, citations that of #citations-section, list               *)
(* currentCitations.  The dash and the ellipsis of the status texts are     *)
(* written in ASCII.                                                       *)
(***************************************************************************)
prettyServiceName(serviceKey) ==
    CASE serviceKey = "chatgpt" -> "ChatGPT"
      [] serviceKey = "claude" -> "Claude"
      [] serviceKey = "gemini" -> "Gemini"
      [] serviceKey = "perplexity" -> "Perplexity"
      [] OTHER -> "Unknown / Not supported"

renderCitations(p, service, sources) ==
    IF service # "chatgpt" THEN [p EXCEPT !.citations = "hidden"]
    ELSE [p EXCEPT !.citations = "shown",
                   !.list = [n \in 1..Len(sources) |->
                                [url |-> sources[n].url,
                                 title |-> OrEmpty(sources[n].title),
                                 attribution |-> OrEmpty(sources[n].attribution)]]]

\* mutant: the unsupported branch leaves the status as init() set it
renderFallbackKeepsStatus(p, t) ==
    IF popupDetectServiceFromUrl(t.url) # NullService
    THEN [(IF popupDetectServiceFromUrl(t.url) = "chatgpt" /\ t.id # 0 THEN p
           ELSE renderCitations(p, popupDetectServiceFromUrl(t.url), <<>>))
             EXCEPT !.service = prettyServiceName(popupDetectServiceFromUrl(t.url)),
                    !.url = t.url,
                    !.status = "fallback",
                    !.statusText = "Fallback mode - refresh this tab",
                    !.hint = TRUE,
                    !.at = IF popupDetectServiceFromUrl(t.url) = "chatgpt" /\ t.id # 0
                           THEN "fallbackCitations" ELSE "rendered"]
    ELSE [renderCitations(p, "unknown", <<>>)
             EXCEPT !.service = prettyServiceName("unknown"),
                    !.url = t.url,
                    !.hint = FALSE,
                    !.at = "rendered"]

\* renderCitations(service, []) of the supported branch hides the section
\* for a service other than chatgpt; for chatgpt the section is rendered by
\* the GET_CITATIONS callback
renderFallback(p, t) ==
    IF popupDetectServiceFromUrl(t.url) # NullService
    THEN [(IF popupDetectServiceFromUrl(t.url) = "chatgpt" /\ t.id # 0 THEN p
           ELSE renderCitations(p, popupDetectServiceFromUrl(t.url), <<>>))
             EXCEPT !.service = prettyServiceName(popupDetectServiceFromUrl(t.url)),
                    !.url = t.url,
                    !.status = "fallback",
                    !.statusText = "Fallback mode - refresh this tab",
                    !.hint = TRUE,
                    !.at = IF popupDetectServiceFromUrl(t.url) = "chatgpt" /\ t.id # 0
                           THEN "fallbackCitations" ELSE "rendered"]
    ELSE [renderCitations(p, "unknown", <<>>)
             EXCEPT !.service = prettyServiceName("unknown"),
                    !.url = t.url,
                    !.status = "unsupported",
                    !.statusText = "Open a supported chat site",
                    !.hint = FALSE,
                    !.at = "rendered"]

renderFromContentScript(p, service, pageUrl, sources) ==
    [renderCitations(p, service, sources)
        EXCEPT !.service = prettyServiceName(service),
               !.url = pageUrl,
               !.status = IF service # "" /\ service # "unknown"
                          THEN "detected" ELSE "unsupported",
               !.statusText = IF service # "" /\ service # "unknown"
                              THEN "Detected" ELSE "Open a supported chat site",
               !.at = "rendered"]

\* init() up to the call of chrome.tabs.query; t is the tab it will report
PopupInit(t) ==
    /\ popup.at = "closed"
    /\ tab' = t
    /\ popup' = [popup EXCEPT !.at = "querying",
                              !.status = "pending",
                              !.statusText = "Checking...",
                              !.service = prettyServiceName("unknown"),
                              !.url = "",
                              !.hint = FALSE]
    /\ UNCHANGED <<fetchVars, sourceVars, callerQueue, shadowQueue, callerVars,
                   shadow, streamVars, sinkVars>>

\* the callback of chrome.tabs.query
TabsQueried ==
    /\ popup.at = "querying"
    /\ popup' = IF tab.id = 0
                THEN [popup EXCEPT !.status = "unsupported",
                                   !.statusText = "Open a supported chat site",
                                   !.at = "rendered"]
                ELSE [popup EXCEPT
                         !.service = prettyServiceName(popupDetectServiceFromUrl(tab.url)),
                         !.url = tab.url,
                         !.at = "service"]
    /\ UNCHANGED <<fetchVars, sourceVars, callerQueue, shadowQueue, callerVars,
                   shadow, streamVars, sinkVars, tab>>

\* the callback of sendMessage GET_SERVICE: answered by the content script
\* of the tab, or not answered (chrome.runtime.lastError is set or response
\* is undefined)
ServiceCallback(answered) ==
    /\ popup.at = "service"
    /\ popup' = IF ~answered THEN renderFallback(popup, tab)
                ELSE [popup EXCEPT !.response = ServiceResponse(tab.url),
                                   !.at = "citations"]
    /\ UNCHANGED <<fetchVars, sourceVars, callerQueue, shadowQueue, callerVars,
                   shadow, streamVars, sinkVars, tab>>

\* the callback of sendMessage GET_CITATIONS, of init and of renderFallback
CitationsCallback(citeRes) ==
    /\ popup.at \in {"citations", "fallbackCitations"}
    /\ popup' = IF popup.at = "citations"
                THEN [renderFromContentScript([popup EXCEPT !.hint = FALSE],
                                             popup.response.service,
                                             popup.response.pageUrl,
                                             IF citeRes.answered THEN citeRes.sources
                                             ELSE <<>>)
                     EXCEPT !.citeRes = citeRes]
                ELSE [renderCitations(popup, popupDetectServiceFromUrl(tab.url),
                                      IF citeRes.answered THEN citeRes.sources ELSE <<>>)
                         EXCEPT !.at = "rendered", !.citeRes = citeRes]
    /\ reply' = IF citeRes.answered THEN citeRes ELSE reply
    /\ UNCHANGED <<fetchVars, sourceVars, callerQueue, shadowQueue, callerVars,
                   shadow, streamVars, mailbox, lastCitations, lastCompleted, tab>>

(***************************************************************************)
(* Inputs                                                                  *)
(***************************************************************************)
ConversationUrl == "https://chatgpt.com/backend-api/f/conversation"
ModelsUrl == "https://chatgpt.com/backend-api/models"
SearchUrl == "https://chatgpt.com/api/search?next=/backend-api/conversation"

StringInput(url) == [kind |-> "string", url |-> url, method |-> ""]
RequestInput(url, method) == [kind |-> "Request", url |-> url, method |-> method]
\* a URL object: it has href, no url property
UrlObjectInput(url) == [kind |-> "URL", url |-> url, method |-> ""]
InitWith(method) == [method |-> method]
Req(input, init) == [input |-> input, init |-> init]

Response(status, statusText, contentType, bodyKind) ==
    [kind |-> "response",
     obj |-> "original",
     status |-> status,
     statusText |-> statusText,
     headers |-> IF contentType = "" THEN {<<"x-id", "1">>}
                 ELSE {<<"content-type", contentType>>, <<"x-id", "1">>},
     body |-> bodyKind]

Rejected(err) == [kind |-> "rejected", error |-> err]

OkStream == Response(200, "OK", "text/event-stream; charset=utf-8", "source")
OkPlain == Response(200, "OK", "text/plain", "source")
OkJson == Response(200, "OK", "application/json", "source")
OkUntyped == Response(200, "OK", "", "source")
NoContent == Response(204, "No Content", "text/event-stream", "none")
ServerError == Response(500, "Internal Server Error", "text/event-stream", "source")
NetworkError == Rejected("TypeError: Failed to fetch")

BodyAB == "data: {\"items\":[{\"url\":\"a\"},{\"url\":\"b\"},{\"url\":\"a\",\"title\":\"t\"}]}\n\n"
BodyC == "data: {\"items\":[{\"url\":\"c\"}]}\n\ndata: [DONE]\n\n"
BodyNone == "event: ping\ndata: {\"v\":1}\n\n"

PostConversation == Req(StringInput(ConversationUrl), InitWith("POST"))

AllRequests ==
    {PostConversation,
     Req(StringInput(ConversationUrl), InitWith("post")),
     Req(StringInput(ConversationUrl), InitWith("")),
     Req(StringInput(ModelsUrl), InitWith("POST")),
     Req(StringInput(SearchUrl), InitWith("POST")),
     Req(RequestInput(ConversationUrl, "POST"), InitWith("")),
     Req(RequestInput(ConversationUrl, "POST"), InitWith("GET")),
     Req(RequestInput(ConversationUrl, "GET"), InitWith("POST")),
     Req(UrlObjectInput(ConversationUrl), InitWith("POST"))}

AllOutcomes ==
    {OkStream, OkPlain, OkJson, OkUntyped, NoContent, ServerError, NetworkError}

SystemBodies == {BodyAB, BodyC, BodyNone}

\* the byte offsets at which a body is cut into chunks: inside the "data:"
\* prefix and inside the JSON document
SystemCuts == {3, 12}

SystemSizes(c) ==
    {n \in 1..(Len(body[c]) - pos[c]) :
        pos[c] + n \in SystemCuts \cup {Len(body[c])}}

(***************************************************************************)
(* Spec: one call of window.fetch with any request and any outcome, the    *)
(* page reading its response, the shadow consumer and the content script.  *)
(***************************************************************************)
Next ==
    \/ \E r \in AllRequests : Fetch("c1", r.input, r.init)
    \/ \E o \in AllOutcomes : \E b \in SystemBodies : Settle("c1", o, b)
    \/ \E n \in SystemSizes("c1") : Arrive("c1", n)
    \/ SourceClose("c1")
    \/ SourceError("c1")
    \/ CallerRead("c1")
    \/ ShadowRead("c1")
    \/ DeliverMessage
    \/ GetCitations

Spec == Init /\ [][Next]_vars

(***************************************************************************)
(* PairSpec: two conversation calls that may overlap or follow each other, *)
(* seen from the shadow consumers and the content script.  The page's own  *)
(* reads touch only the caller's queue and are left out.                   *)
(***************************************************************************)
\* one cut, inside the JSON document
PairCuts == {12}

PairSizes(c) ==
    {n \in 1..(Len(body[c]) - pos[c]) :
        pos[c] + n \in PairCuts \cup {Len(body[c])}}

PairNext ==
    \/ \E c \in Calls : Fetch(c, PostConversation.input, PostConversation.init)
    \/ \E c \in Calls : \E b \in SystemBodies : Settle(c, OkStream, b)
    \/ \E c \in Calls : \E n \in PairSizes(c) : Arrive(c, n)
    \/ \E c \in Calls : SourceClose(c)
    \/ \E c \in Calls : SourceError(c)
    \/ \E c \in Calls : ShadowRead(c)
    \/ DeliverMessage
    \/ GetCitations

PairSpec == Init /\ [][PairNext]_vars

(***************************************************************************)
(* StreamSpec: one conversation stream cut into at most MaxChunks chunks   *)
(* at any byte offsets.                                                    *)
(***************************************************************************)
MaxChunks == 3

StreamNoNewline == "data:{\"items\":[{\"url\":\"a\"}]}"
StreamUtf8 == "data:{\"items\":[{\"url\":\"^~\"}]}\n"
StreamTwo == ":\r\ndata: {\"items\":[{\"url\":\"b\"}]}\r\n"

StreamBodies == {StreamNoNewline, StreamUtf8, StreamTwo}

\* any size, the last allowed chunk taking the rest of the body
StreamSizes(c) ==
    {n \in 1..(Len(body[c]) - pos[c]) :
        Len(sent[c]) + 1 < MaxChunks \/ pos[c] + n = Len(body[c])}

StreamNext ==
    \/ Fetch("c1", PostConversation.input, PostConversation.init)
    \/ \E b \in StreamBodies : Settle("c1", OkStream, b)
    \/ \E n \in StreamSizes("c1") : Arrive("c1", n)
    \/ SourceClose("c1")
    \/ ShadowRead("c1")
    \/ DeliverMessage

StreamSpec == Init /\ [][StreamNext]_vars

(***************************************************************************)
(* PopupSpec: the popup opened on any tab, with the content script         *)
(* answering its queries or not, while window messages of any origin and   *)
(* shape reach the content script.  PopupLiveSpec adds that a callback     *)
(* chrome owes is called: sendMessage and tabs.query always call back,     *)
(* with chrome.runtime.lastError set when nothing answered.                *)
(***************************************************************************)
UrlParts ==
    [scheme : {"https"},
     userinfo : {"", "claude.ai@"},
     host : {"chatgpt.com", "ChatGPT.com", "chat.openai.com", "claude.ai",
             "gemini.google.com", "perplexity.ai", "www.perplexity.ai",
             "chatgpt.com.evil.com", "notclaude.ai", "example.com"},
     port : {"", ":8443"},
     tail : {"", "/", "/c/1?next=https://claude.ai/#gemini.google.com"}]

Href(p) == p.scheme \o "://" \o p.userinfo \o p.host \o p.port \o p.tail

\* strings that are not URLs, a tab without a url, and URLs of browser pages
OddUrls == {"", "chatgpt.com", "https://", "not a url", "//claude.ai/x",
            "about:blank", "chrome://extensions/"}

Tabs == {[id |-> 7, url |-> u] : u \in {Href(p) : p \in UrlParts} \cup OddUrls}
            \cup {NoTab}

WindowEvents ==
    [source : {"window", "frame"},
     data : [type : {CITATIONS_EVENT, "other"},
             isArray : {TRUE},
             sources : {<<>>, <<[url |-> "x", title |-> JStr("X"),
                                attribution |-> JStr("")]>>}]]
    \cup [source : {"window"},
          data : [type : {CITATIONS_EVENT, ""}, isArray : {FALSE}, sources : {<<>>}]]

\* the popup opened on a tab of any url, its callbacks run in their order
ClassifierNext ==
    \/ \E t \in Tabs : PopupInit(t)
    \/ TabsQueried
    \/ \E answered \in BOOLEAN : ServiceCallback(answered)
    \/ \E r \in {NoReply, CitationsResponse} : CitationsCallback(r)

ClassifierSpec == Init /\ [][ClassifierNext]_vars

\* a supported chatgpt tab, a supported tab of another service, tabs of no
\* supported service, a tab without a url, and no tab
PopupTabs ==
    {t \in Tabs : t.url \in {"https://chatgpt.com/", "https://claude.ai/",
                             "https://chatgpt.com.evil.com/", "about:blank", ""}}

PopupNext ==
    \/ \E t \in PopupTabs : PopupInit(t)
    \/ TabsQueried
    \/ \E answered \in BOOLEAN : ServiceCallback(answered)
    \/ \E r \in {NoReply, CitationsResponse} : CitationsCallback(r)
    \/ \E e \in WindowEvents : PostWindowMessage(e)
    \/ DeliverMessage

PopupSpec == Init /\ [][PopupNext]_vars

PopupLiveSpec ==
    /\ PopupSpec
    /\ WF_vars(TabsQueried)
    /\ WF_vars(\E answered \in BOOLEAN : ServiceCallback(answered))
    /\ WF_vars(\E r \in {NoReply, CitationsResponse} : CitationsCallback(r))

(***************************************************************************)
(* MinerSpec: one conversation stream of one data line carrying a JSON     *)
(* document, read as one chunk; the documents exercise every branch of     *)
(* extractSourcesFromPayload.                                              *)
(***************************************************************************)
MinerDocs ==
    {"{\"type\":\"sources_footnote\",\"sources\":[{\"url\":\"a\"},{\"url\":\"b\",\"title\":\"T\"},{\"url\":\"a\"}]}",
     "{\"items\":[{\"url\":\"c\",\"title\":\"T\",\"attribution\":\"A\"}]}",
     "{\"type\":\"sources_footnote\",\"sources\":[{\"url\":\"a\"}],\"items\":[{\"url\":\"b\"}]}",
     "{\"type\":\"sources_footnote\",\"sources\":[{\"url\":\"a\"}],\"more\":{\"items\":[{\"url\":\"c\"}]}}",
     "{\"type\":\"sources_footnote\",\"sources\":\"none\",\"items\":[{\"url\":\"e\"}]}",
     "{\"v\":{\"w\":[1,{\"items\":[{\"url\":\"d\"}]}]},\"items\":[{\"url\":\"f\"}]}",
     "{\"items\":[{\"url\":\"\"},{\"url\":5},{\"title\":\"T\"},null,{\"url\":\"g\"}]}",
     "[{\"items\":[{\"url\":\"h\"}]},\"text\",{\"type\":\"other\",\"sources\":[{\"url\":\"i\"}]}]",
     "{\"items\":{\"url\":\"j\"},\"sources\":[{\"url\":\"k\"}]}",
     "\"text\"",
     "42"}

MinerBodies == {"data: " \o d \o "\n" : d \in MinerDocs}

MinerNext ==
    \/ Fetch("c1", PostConversation.input, PostConversation.init)
    \/ \E b \in MinerBodies : Settle("c1", OkStream, b)
    \/ Arrive("c1", Len(body["c1"]))
    \/ SourceClose("c1")
    \/ ShadowRead("c1")
    \/ DeliverMessage
    \/ GetCitations

MinerSpec == Init /\ [][MinerNext]_vars

(***************************************************************************)
(* LineSpec: one conversation stream of up to MaxLines lines, each with    *)
(* its newline, read as one chunk.  A line is a data line with a citation  *)
(* or a line that carries nothing: a comment, a data line with an empty    *)
(* payload, the [DONE] sentinel, a data line whose JSON is cut short.      *)
(***************************************************************************)
MaxLines == 3

LineKinds ==
    {[text |-> "data: {\"items\":[{\"url\":\"a\"}]}", junk |-> FALSE, url |-> "a"],
     [text |-> "data:{\"items\":[{\"url\":\"b\"}]}\r", junk |-> FALSE, url |-> "b"],
     [text |-> ": ping", junk |-> TRUE, url |-> ""],
     [text |-> "data: ", junk |-> TRUE, url |-> ""],
     [text |-> "data: [DONE]", junk |-> TRUE, url |-> ""],
     [text |-> "data: {\"items\":[{\"url\":\"z\"}]", junk |-> TRUE, url |-> ""]}

LineSeqs == UNION {[1..n -> LineKinds] : n \in 1..MaxLines}

Join(ls) == Concat([i \in 1..Len(ls) |-> ls[i].text \o "\n"], 1, Len(ls))

LineBody == [ls \in LineSeqs |-> Join(ls)]

LineBodies == {LineBody[ls] : ls \in LineSeqs}

LineNext ==
    \/ Fetch("c1", PostConversation.input, PostConversation.init)
    \/ \E b \in LineBodies : Settle("c1", OkStream, b)
    \/ Arrive("c1", Len(body["c1"]))
    \/ SourceClose("c1")
    \/ ShadowRead("c1")
    \/ DeliverMessage
    \/ GetCitations

LineSpec == Init /\ [][LineNext]_vars

(***************************************************************************)
(* Properties                                                              *)
(***************************************************************************)
IsPrefix(a, b) == Len(a) <= Len(b) /\ a = SubSeq(b, 1, Len(a))

Settled(c) == phase[c] = "settled"
GotResponse(c) == Settled(c) /\ upstream[c].kind = "response"
EmptyStream == [buffer |-> "", collected |-> <<>>, lines |-> <<>>]

\* C1: the response the caller receives has the status, status text and
\* headers of the original response (a rejection is the original rejection),
\* it has a body exactly when the original has one, and the chunks the caller
\* reads are the chunks the original body produces, in order, ending as the
\* original body ends.
C1_SameResponse ==
    \A c \in Calls :
        Settled(c) =>
            /\ upstream[c].kind = "rejected" => result[c] = upstream[c]
            /\ upstream[c].kind = "response" =>
                  /\ result[c].kind = "response"
                  /\ result[c].status = upstream[c].status
                  /\ result[c].statusText = upstream[c].statusText
                  /\ result[c].headers = upstream[c].headers
                  /\ (result[c].body = "none") = (upstream[c].body = "none")
            /\ IsPrefix(callerGot[c], sent[c])
            /\ callerGot[c] \o callerQueue[c] = sent[c] \/ srcState[c] = "errored"
            /\ callerEnd[c] = "done" => callerGot[c] = sent[c] /\ srcState[c] = "closed"
            /\ callerEnd[c] = "error" => srcState[c] = "errored"

C1_Witness ==
    /\ IsTeed(result["c1"])
    /\ callerEnd["c1"] = "done"
    /\ Len(callerGot["c1"]) = 3
    /\ shadow["c1"] = "done"

\* C5: the caller holds its response as soon as a shadow consumer exists, and
\* a caller that cannot read on is waiting for the source alone: it has read
\* every chunk the source has produced and the source is still open, however
\* far the shadow consumer has come.
C5_CallerNeverWaitsForShadow ==
    \A c \in Calls :
        /\ shadow[c] # "none" => Settled(c) /\ result[c].kind = "response"
        /\ (/\ GotResponse(c)
            /\ result[c].body # "none"
            /\ callerEnd[c] = "reading"
            /\ ~CallerCanRead(c))
           => srcState[c] = "open" /\ callerGot[c] = sent[c]

\* the caller has read to the end while the shadow consumer has read nothing
C5_Witness ==
    /\ IsTeed(result["c1"])
    /\ callerEnd["c1"] = "done"
    /\ Len(sent["c1"]) = 3
    /\ shadow["c1"] = "reading"
    /\ shadowQueue["c1"] = sent["c1"]

\* C7: a rejection of the original fetch is what the caller gets, and so is a
\* response that is not successful: the same object, nothing teed, no
\* consumer started, no line decoded, nothing posted, the sink as it was.
C7_UpstreamFailureUntouched ==
    \A c \in Calls :
        (Settled(c) /\ (upstream[c].kind = "rejected" \/ ~IsOk(upstream[c]))) =>
            /\ result[c] = upstream[c]
            /\ shadow[c] = "none"
            /\ shadowQueue[c] = <<>>
            /\ StreamState(c) = EmptyStream
            /\ decoder[c] = ""
            /\ mailbox = <<>>
            /\ lastCitations = <<>>

C7_Witness ==
    /\ isConversation(request["c1"].input, request["c1"].init)
    /\ upstream["c1"] = ServerError
    /\ callerEnd["c1"] = "done"
    /\ Len(callerGot["c1"]) = 3

(***************************************************************************)
(* The request a call makes, as the Fetch standard resolves it: init       *)
(* overrides the method of a request object, a standard method name is     *)
(* upper-cased, and the path of the URL ends before the query.             *)
(***************************************************************************)
EffectiveMethod(req) ==
    IF req.init.method # "" THEN ToUpperCase(req.init.method)
    ELSE IF req.input.kind = "Request" /\ req.input.method # "" THEN req.input.method
    ELSE "GET"

BeforeQuery(s) == IF IndexOf(s, "?") = -1 THEN s ELSE SliceTo(s, IndexOf(s, "?"))
AfterHost(s) == IF IndexOf(s, "/") = -1 THEN "" ELSE SliceFrom(s, IndexOf(s, "/"))

\* "scheme://host/path?query" -> "/path"
UrlPath(url) == BeforeQuery(AfterHost(SliceFrom(url, IndexOf(url, ":") + 3)))

\* C8: a body is teed and the decoder started only if the path of the request
\* URL contains both '/backend-api/' and 'conversation', the effective method
\* is POST, the response is successful with a body and its content type is
\* one of the two accepted types.
C8_TeeOnlyInScope ==
    \A c \in Calls :
        shadow[c] # "none" =>
            /\ Includes(UrlPath(request[c].input.url), CONVERSATION_PATH)
            /\ Includes(UrlPath(request[c].input.url), CONVERSATION_SUBPATH)
            /\ EffectiveMethod(request[c]) = "POST"
            /\ IsOk(upstream[c])
            /\ upstream[c].body # "none"
            /\ AcceptedType(HeaderOrEmpty(upstream[c].headers, "content-type"))

\* C6: a failure of the shadow stream's reads leaves the caller's promise,
\* response and chunks as they are, and the rejection does not escape: the
\* promise that consumeStream returns never ends rejected with no handler.
C6_ShadowFailureContained ==
    \A c \in Calls :
        /\ shadow[c] # "rejected"
        /\ (shadow[c] # "none" /\ srcState[c] = "errored") =>
              /\ result[c] = WrappedResponse(upstream[c])
              /\ IsPrefix(callerGot[c], sent[c])

\* the bytes the consumer of call c has read so far, as one chunk
BytesRead(c) == Concat(sent[c], 1, Len(sent[c]) - Len(shadowQueue[c]))

\* C3: whatever the cut of the body into chunks, the consumer's state after
\* the chunks it has read is the state it reaches on the same bytes read as
\* one chunk: the same data lines processed, the same citations collected in
\* the same order, the same unfinished line.
C3_SplitIndependent ==
    \A c \in Calls :
        (shadow[c] \in {"reading", "done"} /\ srcState[c] # "errored") =>
            [st |-> StreamState(c), pending |-> decoder[c]]
                = OnChunk(EmptyStream, "", BytesRead(c))

\* a stream cut inside the "data:" prefix and inside the two-byte character
C3_Witness ==
    /\ shadow["c1"] = "done"
    /\ body["c1"] = StreamUtf8
    /\ Len(sent["c1"]) = 3
    /\ Len(sent["c1"][1]) = 2
    /\ Len(sent["c1"][2]) = 22
    /\ Len(collected["c1"]) = 1
    /\ collected["c1"][1].url = TwoByteChar

\* C4: when the stream ends, what is left in the line buffer is processed as
\* a last line: the citations collected are those of the body with its last
\* line terminated.
C4_FinalLineFlushed ==
    \A c \in Calls :
        shadow[c] = "done" =>
            collected[c] = OnChunk(EmptyStream, "", body[c] \o "\n").st.collected

\* C2: once every posted notification is dispatched, a GET_CITATIONS query
\* returns the deduplicated citations of the stream that completed last,
\* whatever their number, and nothing of an earlier stream.
C2_QueryReturnsLastStream ==
    (lastCompleted.any /\ mailbox = <<>>) =>
        CitationsResponse.sources = lastCompleted.unique

\* the indices of coll that hold the first entry for their url
FirstIndices(coll) ==
    {i \in 1..Len(coll) : \A j \in 1..(i - 1) : coll[j].url # coll[i].url}

\* list holds the first entry of coll for each url, in the order of coll
IsFirstSeen(list, coll) ==
    /\ Len(list) = Cardinality(FirstIndices(coll))
    /\ \A n \in 1..Len(list) :
          \E i \in FirstIndices(coll) :
              /\ list[n] = coll[i]
              /\ Cardinality({j \in FirstIndices(coll) : j < i}) = n - 1

NoTwoSameUrl(list) ==
    \A i, j \in 1..Len(list) : i # j => list[i].url # list[j].url

DeliveredLists ==
    {mailbox[n].data.sources : n \in 1..Len(mailbox)}
        \cup {lastCitations} \cup {reply.sources}

\* C9: every list posted to, stored by or returned by the content script has
\* no two entries with the same url and is, for some completed stream, the
\* first entry for each url that the stream collected, in collection order.
C9_DedupFirstSeen ==
    \A list \in DeliveredLists :
        /\ NoTwoSameUrl(list)
        /\ list = <<>> \/ \E c \in Calls :
                             shadow[c] = "done" /\ IsFirstSeen(list, collected[c])

\* the stored list is the first-seen dedup of a stream that collected a
\* duplicate with another title
C9_Witness ==
    /\ Len(lastCitations) = 2
    /\ \E c \in Calls :
          /\ shadow[c] = "done"
          /\ Len(collected[c]) = 3
          /\ collected[c][1].url = collected[c][3].url
          /\ collected[c][1].title # collected[c][3].title
          /\ lastCitations = <<collected[c][1], collected[c][2]>>

\* a step in which the consumer of call c processes a chunk and reads on
ChunkStep(c) ==
    /\ shadow[c] = "reading"
    /\ shadow'[c] = "reading"
    /\ shadowQueue'[c] # shadowQueue[c]

PostStep == Len(mailbox') > Len(mailbox)

\* consumeStream of call c has returned or failed: it reads and posts no more
Ended(c) == shadow[c] \in {"done", "rejected"}

\* C11: a step posts one notification at most, and it is the step in which a
\* stream reads its end-of-stream signal with every chunk of its body read
\* before; a stream that has ended stays ended, reads nothing and changes
\* nothing of its own state, so it posts once at most.
C11_PostOnceAtEnd ==
    [][/\ PostStep =>
            /\ Len(mailbox') = Len(mailbox) + 1
            /\ \E c \in Calls :
                  /\ shadow[c] = "reading"
                  /\ shadow'[c] = "done"
                  /\ srcState[c] = "closed"
                  /\ shadowQueue[c] = <<>>
                  /\ Concat(sent[c], 1, Len(sent[c])) = body[c]
                  /\ \A d \in Calls \ {c} : shadow'[d] = shadow[d]
       /\ \A c \in Calls :
             Ended(c) =>
                 /\ shadow'[c] = shadow[c]
                 /\ shadowQueue'[c] = shadowQueue[c]
                 /\ StreamState(c)' = StreamState(c)
                 /\ decoder'[c] = decoder[c]]_vars

\* both streams have ended and each has posted its one notification
C11_Witness ==
    /\ \A c \in Calls : shadow[c] = "done" /\ Len(sent[c]) = 2
    /\ Len(mailbox) = 2
    /\ mailbox[1].data.sources # mailbox[2].data.sources

\* what consumeStream holds and collects when it runs alone on the bytes
Alone(bytes) == OnChunk(EmptyStream, "", bytes)

\* C12: with calls in flight together and their reads interleaved in any
\* order, the buffer, decoder state and accumulator of each stream are those
\* of a run alone on the chunks it has read, and the stream that completes
\* collects and posts what a run alone on its whole body collects and posts.
C12_StreamsIsolated ==
    /\ [](\A c \in Calls :
             (shadow[c] = "reading" /\ srcState[c] # "errored") =>
                 [st |-> StreamState(c), pending |-> decoder[c]] = Alone(BytesRead(c)))
    /\ [][\A c \in Calls :
             (shadow[c] = "reading" /\ shadow'[c] = "done") =>
                 /\ collected'[c] = OnDone(Alone(body[c]).st).collected
                 /\ mailbox' = mailbox \o
                        PostCitations(Unique(OnDone(Alone(body[c]).st).collected))]_vars

\* two streams with different bodies are in flight, each has read its first
\* chunk and holds the unfinished line of it
C12_Witness ==
    /\ \A c \in Calls :
          /\ shadow[c] = "reading"
          /\ Len(sent[c]) = 1
          /\ shadowQueue[c] = <<>>
          /\ buffer[c] # ""
    /\ body["c1"] = BodyAB
    /\ body["c2"] = BodyC

\* the JSON document of the one data line of a MinerSpec body
DocOf(b) == JSONParse(Trim(SliceTo(SliceFrom(b, Len(DATA_PREFIX)), Len(b) - 6))).v

\* the citations in a list
Cited(list) == {list[n] : n \in 1..Len(list)}

\* the citations of the elements of seq that have a string url
EntriesOf(seq) ==
    IF seq.t = "array"
    THEN {Citation(seq.a[n]) : n \in {m \in 1..Len(seq.a) : HasStringUrl(seq.a[m])}}
    ELSE {}

\* C13: when the document of a data line is a mapping with an 'items'
\* sequence, every element of it with a string url is collected, whether or
\* not the mapping is also a 'sources_footnote' node with a 'sources'
\* sequence; the sources of such a node are collected as well.
C13_ItemsIndependent ==
    (shadow["c1"] = "done" /\ DocOf(body["c1"]).t = "object") =>
        /\ EntriesOf(Field(DocOf(body["c1"]), "items")) \subseteq Cited(collected["c1"])
        /\ Field(DocOf(body["c1"]), "type") = JStr("sources_footnote") =>
              EntriesOf(Field(DocOf(body["c1"]), "sources")) \subseteq Cited(collected["c1"])

\* C14: when the document of a data line is a mapping, footnote node or not,
\* the miner has gone into the value of every key of it: whatever the miner
\* finds in the value of a key on its own is among the citations collected.
C14_RecursesEveryKey ==
    (shadow["c1"] = "done" /\ DocOf(body["c1"]).t = "object") =>
        \A n \in 1..Len(DocOf(body["c1"]).a) :
            Cited(extractSourcesFromPayload(DocOf(body["c1"]).a[n], <<>>))
                \subseteq Cited(collected["c1"])

\* C18: every citation collected, posted, stored or returned has a url that
\* is a non-empty string.
C18_UrlNonEmpty ==
    \A x \in UNION ({Cited(collected[c]) : c \in Calls}
                      \cup {Cited(list) : list \in DeliveredLists}) :
        x.url # ""

\* the table of the classifier: host name to service key
ServiceOfHost(host) ==
    CASE host \in {"chatgpt.com", "chat.openai.com"} -> "chatgpt"
      [] host = "claude.ai" -> "claude"
      [] host = "gemini.google.com" -> "gemini"
      [] host = "perplexity.ai" -> "perplexity"
      [] OTHER -> NullService

\* the service of every tab url by the host it was built with
ExpectedTable ==
    [u \in OddUrls |-> NullService] @@
    [u \in {Href(p) : p \in UrlParts} |->
        ServiceOfHost(ToLowerCase((CHOOSE p \in UrlParts : Href(p) = u).host))]

ExpectedService(url) == ExpectedTable[url]

OrUnknown(service) == IF service = NullService THEN "unknown" ELSE service

\* C15: on the url of every tab the two copies of detectServiceFromUrl
\* return the same key: the table's key for the lowercased host the url was
\* built with, whatever its userinfo, port, path, query and fragment, and
\* null (shown and sent as 'unknown') for any other host, an empty string
\* and a string that is not a URL.
C15_ClassifierTable ==
    /\ detectServiceFromUrl(tab.url) = popupDetectServiceFromUrl(tab.url)
    /\ popupDetectServiceFromUrl(tab.url) = ExpectedService(tab.url)
    /\ popup.at = "service" =>
          popup.service = prettyServiceName(OrUnknown(ExpectedService(tab.url)))
    /\ popup.response.answered =>
          popup.response.service = OrUnknown(ExpectedService(tab.url))

\* a supported host in capitals behind a userinfo and before a port, with
\* other supported hosts in the query and the fragment
C15_Witness ==
    /\ tab.url = "https://claude.ai@ChatGPT.com:8443/c/1?next=https://claude.ai/#gemini.google.com"
    /\ popup.at = "citations"
    /\ popup.service = "ChatGPT"
    /\ popup.response.service = "chatgpt"

\* GET_SERVICE got no response on a tab with an id: renderFallback has run
FallbackTaken ==
    /\ tab.id # 0
    /\ ~popup.response.answered
    /\ popup.at \in {"fallbackCitations", "rendered"}

\* C16: after a GET_SERVICE without response the popup shows the service
\* detected from the tab url, with 'Fallback mode' on a supported url and
\* 'Open a supported chat site' with the unknown service on any other; when
\* the GET_CITATIONS response is missing too, the list rendered is empty;
\* and a popup that waits for a response always gets to its rendered state.
C16_FallbackRendered ==
    /\ [](FallbackTaken =>
             /\ popup.service = prettyServiceName(OrUnknown(ExpectedService(tab.url)))
             /\ popup.url = tab.url
             /\ IF ExpectedService(tab.url) # NullService
                THEN popup.status = "fallback" /\ popup.hint
                ELSE /\ popup.status = "unsupported"
                     /\ popup.statusText = "Open a supported chat site"
                     /\ popup.citations = "hidden"
             /\ popup.at = "rendered" =>
                   /\ popup.citations = "shown" <=> ExpectedService(tab.url) = "chatgpt"
                   /\ ~popup.citeRes.answered => popup.list = <<>>)
    /\ [](popup.at = "rendered" /\ ~popup.citeRes.answered => popup.list = <<>>)
    /\ (popup.at \in {"service", "citations", "fallbackCitations"})
           ~> (popup.at = "rendered")

\* neither query was answered on a chatgpt tab while the content script
\* holds citations: fallback mode with an empty list
C16_Witness ==
    /\ FallbackTaken
    /\ popup.at = "rendered"
    /\ popup.status = "fallback"
    /\ popup.service = "ChatGPT"
    /\ popup.citations = "shown"
    /\ popup.list = <<>>
    /\ lastCitations # <<>>

\* GET_SERVICE got no response on a tab of no supported service
C16_WitnessUnsupported ==
    /\ FallbackTaken
    /\ popup.status = "unsupported"
    /\ tab.url = "https://chatgpt.com.evil.com/"

\* the message at the head of the mailbox is one the listener stores
Stored(event) ==
    /\ event.source = "window"
    /\ event.data.type = CITATIONS_EVENT
    /\ event.data.isArray

\* C20: lastCitations changes only in the delivery of a window message
\* whose source is the page's window, whose type is
\* 'AICredibilityCitations' and whose sources are an array, and becomes
\* these sources; the delivery of any other message and every step of the
\* popup's queries leave it unchanged, and an answered GET_CITATIONS
\* returns the list as it is stored.
C20_StoredOnlyByOwnMessage ==
    [][/\ lastCitations' # lastCitations =>
             /\ mailbox # <<>>
             /\ Stored(Head(mailbox))
             /\ lastCitations' = Head(mailbox).data.sources
             /\ mailbox' = Tail(mailbox)
       /\ (mailbox # <<>> /\ mailbox' = <<>> /\ ~Stored(Head(mailbox))) =>
             lastCitations' = lastCitations
       /\ popup' # popup =>
             /\ lastCitations' = lastCitations
             /\ popup'.response.answered =>
                   popup'.response = ServiceResponse(tab'.url)
             /\ popup'.citeRes.answered =>
                   popup'.citeRes.sources = lastCitations]_vars

\* the popup got the stored citations while a message of a frame with an
\* empty list waits in the mailbox
C20_Witness ==
    /\ lastCitations # <<>>
    /\ popup.citeRes.answered
    /\ popup.citeRes.sources = lastCitations
    /\ mailbox # <<>>
    /\ Head(mailbox).source = "frame"
    /\ Head(mailbox).data.type = CITATIONS_EVENT
    /\ Head(mailbox).data.sources = <<>>

\* the text after the last newline of text
Residue(text) ==
    IF ~Includes(text, "\n") THEN text
    ELSE SliceFrom(text, CHOOSE i \in 1..Len(text) :
                             /\ Ch(text, i) = "\n"
                             /\ \A j \in (i + 1)..Len(text) : Ch(text, j) # "\n")

\* C19: between the reads, and after the last one, the line buffer of a
\* stream holds no newline: it is the text decoded so far after its last
\* newline, the unfinished line, and nothing of a line already taken.
C19_BufferHoldsNoNewline ==
    \A c \in Calls :
        /\ ~Includes(buffer[c], "\n")
        /\ shadow[c] \in {"reading", "done"} =>
              buffer[c] = Residue(Decode("", BytesRead(c)).text)

\* the first chunk brought the first line, its newline and the start of
\* the second line, which is what the buffer holds
C19_Witness ==
    /\ body["c1"] = StreamTwo
    /\ shadow["c1"] = "reading"
    /\ Len(sent["c1"]) = 1
    /\ shadowQueue["c1"] = <<>>
    /\ Len(sent["c1"][1]) = 12
    /\ buffer["c1"] = "data: {\"i"

\* the lines a body of LineSpec was built from
LinesTable == [b \in LineBodies |-> CHOOSE ls \in LineSeqs : LineBody[ls] = b]

LinesOf(b) == LinesTable[b]

IsDataLine(l) == ~l.junk

\* the body with its lines that carry nothing taken out
WithoutJunk(b) == Join(SelectSeq(LinesOf(b), IsDataLine))

UrlsOf(list) == [i \in 1..Len(list) |-> list[i].url]

\* C17: a stream with comment lines, data lines with an empty payload,
\* [DONE] lines and data lines of invalid JSON among its lines ends as the
\* stream without them does: the same citations collected and delivered,
\* one for every valid data line in the order of the lines, also for the
\* valid lines after a [DONE] or an invalid line.
C17_JunkLinesIgnored ==
    \A c \in Calls :
        (shadow[c] = "done" /\ body[c] \in LineBodies) =>
            /\ collected[c] = OnDone(OnChunk(EmptyStream, "", WithoutJunk(body[c])).st).collected
            /\ UrlsOf(collected[c]) = UrlsOf(SelectSeq(LinesOf(body[c]), IsDataLine))
            /\ lastCompleted = [any |-> TRUE, unique |-> Unique(collected[c])]

\* an invalid data line, then [DONE], then a valid data line: its citation
\* reached the content script
C17_Witness ==
    /\ body["c1"] = "data: {\"items\":[{\"url\":\"z\"}]\ndata: [DONE]\ndata: {\"items\":[{\"url\":\"a\"}]}\n"
    /\ shadow["c1"] = "done"
    /\ UrlsOf(collected["c1"]) = <<"a">>
    /\ UrlsOf(lastCitations) = <<"a">>

====
